---- MODULE Spec2Model ----
(***************************************************************************)
(* Hexstack: template resolution (ProjectSetup::determine_template) and    *)
(* the build pipeline (ProjectSetup::build) of src/src/setup.rs.           *)
(*                                                                         *)
(* Strings that the code inspects character by character (component        *)
(* identifiers, project names) are sequences of one-character strings;     *)
(* strings that the code only compares or prints (template keys, display   *)
(* names, URLs, the frontend) are TLA+ strings.  Option<T> is a sequence   *)
(* of length 0 (None) or 1 (Some).                                         *)
(***************************************************************************)
EXTENDS Integers, Sequences, FiniteSets, TLC

VARIABLES
    args,       \* per invocation: the arguments handed to ProjectSetup::new
    pc,         \* per invocation: position in new / build
    setup,      \* per invocation: the ProjectSetup object (None before new)
    ret,        \* per invocation: value returned by a direct determine_template call
    calls,      \* per invocation: values returned by direct calls of the other methods
    earlier,    \* per invocation: the invocations whose build had already returned
                \* when build was called on this one
    total,      \* per invocation: build's local total_steps
    pb,         \* per invocation: build's progress bar
    template,   \* per invocation: build's local `template`
    err,        \* per invocation: the error build returned
    effects,    \* per invocation: external commands run and files removed, in order
    printed,    \* per invocation: what print_next_steps wrote
    fs,         \* the current directory: project path -> entry
    fs0         \* the current directory as it was before any invocation

vars == <<args, pc, setup, ret, calls, earlier, total, pb, template, err, effects, printed, fs, fs0>>

----------------------------------------------------------------------------
(* Option<T> *)

None == <<>>

Some(x) == <<x>>

----------------------------------------------------------------------------
(* Characters and str::to_lowercase *)

UpperChars ==
    <<"A","B","C","D","E","F","G","H","I","J","K","L","M",
      "N","O","P","Q","R","S","T","U","V","W","X","Y","Z">>

LowerChars ==
    <<"a","b","c","d","e","f","g","h","i","j","k","l","m",
      "n","o","p","q","r","s","t","u","v","w","x","y","z">>

\* The lowercase of each uppercase letter.
lowercase_of == [c \in {UpperChars[i] : i \in DOMAIN UpperChars} |->
                    LowerChars[CHOOSE i \in DOMAIN UpperChars : UpperChars[i] = c]]

char_to_lowercase(c) == IF c \in DOMAIN lowercase_of THEN lowercase_of[c] ELSE c

to_lowercase(s) == [i \in 1..Len(s) |-> char_to_lowercase(s[i])]

----------------------------------------------------------------------------
(* Component identifiers *)

ripress == <<"r","i","p","r","e","s","s">>

wynd == <<"w","y","n","d">>

lume == <<"l","u","m","e">>

\* The keys of load_component_config: the known components.
load_component_config == {ripress, wynd, lume}

\* Argument values: differently cased and unknown identifiers.
RIPRESS == <<"R","I","P","R","E","S","S">>

WyNd == <<"W","y","N","d">>

unknown == <<"u","n","k","n","o","w","n">>

extraUnknown == <<"e","x","t","r","a","U","n","k","n","o","w","n">>

----------------------------------------------------------------------------
(* ProjectSetup::load_templates *)

Tpl(n, u) == [name |-> n, github_url |-> u]

load_templates ==
    \* Basic templates (no frontend)
    ("ripress" :> Tpl("Ripress Basic", "https://github.com/Guru901/ripress-only"))
 @@ ("wynd" :> Tpl("Wynd Basic", "https://github.com/Guru901/wynd-only"))
 @@ ("lume" :> Tpl("Lume Basic", "https://github.com/Guru901/lume-only"))
 @@ ("ripress_wynd" :> Tpl("Ripress + Wynd", "https://github.com/Guru901/ripress-wynd"))
 @@ ("ripress_lume" :> Tpl("Ripress + Lume", "https://github.com/Guru901/ripress-lume"))
 @@ ("wynd_lume" :> Tpl("Wynd + Lume", "https://github.com/Guru901/wynd-lume"))
 @@ ("ripress_wynd_lume" :>
        Tpl("Ripress + Wynd + Lume", "https://github.com/Guru901/ripress-wynd-lume"))
    \* React frontend templates
 @@ ("ripress-react" :> Tpl("Ripress + React", "https://github.com/Guru901/ripress-react"))
 @@ ("wynd-react" :> Tpl("Wynd + React", "https://github.com/Guru901/wynd-react"))
 @@ ("ripress-wynd-react" :>
        Tpl("Ripress + Wynd + React", "https://github.com/Guru901/ripress-wynd-react"))
 @@ ("ripress-lume-react" :>
        Tpl("Ripress + Lume + React", "https://github.com/Guru901/ripress-lume-react"))
 @@ ("wynd-lume-react" :>
        Tpl("Wynd + Lume + React", "https://github.com/Guru901/wynd-lume-react"))
 @@ ("ripress-wynd-lume-react" :>
        Tpl("Ripress + Wynd + Lume + React",
            "https://github.com/Guru901/ripress-wynd-lume-react"))
    \* Svelte frontend templates
 @@ ("ripress-svelte" :> Tpl("Ripress + Svelte", "https://github.com/Guru901/ripress-svelte"))
 @@ ("wynd-svelte" :> Tpl("Wynd + Svelte", "https://github.com/Guru901/wynd-svelte"))
 @@ ("ripress-wynd-svelte" :>
        Tpl("Ripress + Wynd + Svelte", "https://github.com/Guru901/ripress-wynd-svelte"))
 @@ ("ripress-lume-svelte" :>
        Tpl("Ripress + Lume + Svelte", "https://github.com/Guru901/ripress-lume-svelte"))
 @@ ("wynd-lume-svelte" :>
        Tpl("Wynd + Lume + Svelte", "https://github.com/Guru901/wynd-lume-svelte"))
 @@ ("ripress-wynd-lume-svelte" :>
        Tpl("Ripress + Wynd + Lume + Svelte",
            "https://github.com/Guru901/ripress-wynd-lume-svelte"))

\* HashMap::get
Get(map, key) == IF key \in DOMAIN map THEN Some(map[key]) ELSE None

----------------------------------------------------------------------------
(* ProjectSetup::new *)

\* A constructor that forgets the normalization.
new_keeps_case(name, selected_components, selected_frontend) ==
    [ name                |-> name,
      selected_frontend   |-> selected_frontend,
      selected_components |-> selected_components ]

\* config and templates are filled from load_component_config() and
\* load_templates() and never written afterwards; the methods below read the
\* loaders directly.
new(name, selected_components, selected_frontend) ==
    [ name                |-> name,
      selected_frontend   |-> selected_frontend,
      selected_components |->
          [i \in 1..Len(selected_components) |-> to_lowercase(selected_components[i])] ]

----------------------------------------------------------------------------
(* ProjectSetup::determine_template *)

\* Priority order for template selection (considering frontend)
priorities_react ==
    << <<"ripress-wynd-lume-react", <<ripress, wynd, lume>> >>,
       <<"ripress-wynd-react",      <<ripress, wynd>> >>,
       <<"ripress-lume-react",      <<ripress, lume>> >>,
       <<"wynd-lume-react",         <<wynd, lume>> >>,
       <<"ripress-react",           <<ripress>> >>,
       <<"wynd-react",              <<wynd>> >>,
       <<"lume-react",              <<lume>> >> >>

priorities_svelte ==
    << <<"ripress-wynd-lume-svelte", <<ripress, wynd, lume>> >>,
       <<"ripress-wynd-svelte",      <<ripress, wynd>> >>,
       <<"ripress-lume-svelte",      <<ripress, lume>> >>,
       <<"wynd-lume-svelte",         <<wynd, lume>> >>,
       <<"ripress-svelte",           <<ripress>> >>,
       <<"wynd-svelte",              <<wynd>> >>,
       <<"lume-svelte",              <<lume>> >> >>

\* The basic list with its single-component candidates out of order.
priorities_basic_wynd_first ==
    << <<"ripress_wynd_lume", <<ripress, wynd, lume>> >>,
       <<"ripress_wynd",      <<ripress, wynd>> >>,
       <<"ripress_lume",      <<ripress, lume>> >>,
       <<"wynd_lume",         <<wynd, lume>> >>,
       <<"wynd",              <<wynd>> >>,
       <<"ripress",           <<ripress>> >>,
       <<"lume",              <<lume>> >> >>

priorities_basic ==
    << <<"ripress_wynd_lume", <<ripress, wynd, lume>> >>,
       <<"ripress_wynd",      <<ripress, wynd>> >>,
       <<"ripress_lume",      <<ripress, lume>> >>,
       <<"wynd_lume",         <<wynd, lume>> >>,
       <<"ripress",           <<ripress>> >>,
       <<"wynd",              <<wynd>> >>,
       <<"lume",              <<lume>> >> >>

\* A choice of the priority list that ignores the case of the frontend.
template_priorities_ignores_case(selected_frontend) ==
    LET has_react_frontend ==
            selected_frontend # None /\ selected_frontend[1] \in {"react", "React"}
        has_svelte_frontend ==
            selected_frontend # None /\ selected_frontend[1] \in {"svelte", "Svelte"}
    IN  IF has_react_frontend THEN priorities_react
        ELSE IF has_svelte_frontend THEN priorities_svelte
        ELSE priorities_basic

template_priorities(selected_frontend) ==
    LET has_react_frontend  == selected_frontend # None /\ selected_frontend[1] = "react"
        has_svelte_frontend == selected_frontend # None /\ selected_frontend[1] = "svelte"
    IN  IF has_react_frontend THEN priorities_react
        ELSE IF has_svelte_frontend THEN priorities_svelte
        ELSE priorities_basic

\* let components_set: HashSet<&str> = self.selected_components.iter()...collect()
components_set_of(self) ==
    { self.selected_components[i] : i \in DOMAIN self.selected_components }

RECURSIVE first_match(_, _, _, _, _)
\* The for loop over template_priorities, from candidate i on; set_len is
\* components_set.len().
first_match(priorities, templates, components_set, set_len, i) ==
    IF i > Len(priorities) THEN None
    ELSE
        LET template_key        == priorities[i][1]
            required_components == priorities[i][2]
            rest == first_match(priorities, templates, components_set, set_len, i + 1)
        IN  IF \A j \in DOMAIN required_components :
                   required_components[j] \in components_set
            THEN IF Len(required_components) > 1
                 THEN IF set_len = Len(required_components)
                      THEN IF Get(templates, template_key) # None
                           THEN Get(templates, template_key)
                           ELSE rest
                      ELSE rest
                 ELSE IF Get(templates, template_key) # None
                      THEN Get(templates, template_key)
                      ELSE rest
            ELSE rest

RECURSIVE first_subset_match(_, _, _, _)
\* A resolver without the exact-match rule: containment suffices for every
\* candidate.
first_subset_match(priorities, templates, components_set, i) ==
    IF i > Len(priorities) THEN None
    ELSE
        LET template_key        == priorities[i][1]
            required_components == priorities[i][2]
        IN  IF /\ \A j \in DOMAIN required_components :
                       required_components[j] \in components_set
               /\ Get(templates, template_key) # None
            THEN Get(templates, template_key)
            ELSE first_subset_match(priorities, templates, components_set, i + 1)

determine_template_subset(self) ==
    first_subset_match(template_priorities(self.selected_frontend), load_templates,
                       components_set_of(self), 1)

\* A resolver whose exact-match test counts the list, not the set.
determine_template_vec_len(self) ==
    first_match(template_priorities(self.selected_frontend), load_templates,
                components_set_of(self), Len(self.selected_components), 1)

\* A resolver that drops unknown identifiers before matching.
determine_template_known_only(self) ==
    LET known_set == components_set_of(self) \cap load_component_config
    IN  first_match(template_priorities(self.selected_frontend), load_templates,
                    known_set, Cardinality(known_set), 1)

\* A resolver that ignores the frontend.
determine_template_no_frontend(self) ==
    first_match(priorities_basic, load_templates,
                components_set_of(self), Cardinality(components_set_of(self)), 1)

\* A resolver that falls back to the first catalogued template.
determine_template_default(self) ==
    LET r == first_match(template_priorities(self.selected_frontend), load_templates,
                         components_set_of(self), Cardinality(components_set_of(self)), 1)
    IN  IF r # None \/ self.selected_components = <<>> THEN r
        ELSE Some(load_templates["ripress"])

determine_template(self) ==
    first_match(template_priorities(self.selected_frontend), load_templates,
                components_set_of(self), Cardinality(components_set_of(self)), 1)

----------------------------------------------------------------------------
(* anyhow::Result<()> *)

Ok == [ok |-> TRUE, msg |-> ""]

Err(msg) == [ok |-> FALSE, msg |-> msg]

----------------------------------------------------------------------------
(* ProjectSetup::validate_project_name *)

invalid_chars == {"/", "\\", ":", "*", "?", "\"", "<", ">", "|"}

\* A letter outside ASCII, written by its code point; two bytes in UTF-8.
NonAsciiLetters == {"U+00E9"}

\* char::is_alphabetic
is_alphabetic(c) ==
    \/ \E i \in DOMAIN UpperChars : UpperChars[i] = c
    \/ \E i \in DOMAIN LowerChars : LowerChars[i] = c
    \/ c \in NonAsciiLetters

\* char::len_utf8
len_utf8(c) == IF c \in NonAsciiLetters THEN 2 ELSE 1

RECURSIVE str_len(_)
\* String::len: the length in bytes
str_len(s) == IF s = <<>> THEN 0 ELSE len_utf8(Head(s)) + str_len(Tail(s))

MaxNameLen == 50

\* A validator that accepts every name.
validate_project_name_accepts_all(self) == Ok

validate_project_name(self) ==
    IF self.name = <<>>
    THEN Err("Project name cannot be empty")
    ELSE IF str_len(self.name) > MaxNameLen
    THEN Err("Project name is too long (max 50 characters)")
    ELSE IF \E i \in DOMAIN self.name : self.name[i] \in invalid_chars
    THEN Err("Project name contains invalid characters")
    ELSE IF ~is_alphabetic(self.name[1]) /\ self.name[1] # "_"
    THEN Err("Project name must start with a letter or underscore")
    ELSE Ok

----------------------------------------------------------------------------
(* The current directory.  An entry records what the pipeline can observe   *)
(* or change at a project path: whether anything is there, whose .git it    *)
(* holds, whether it has a backend/ subdirectory, and whether cargo update  *)
(* has refreshed its lockfile.                                              *)

Absent == [kind |-> "none", git |-> "none", backend |-> FALSE, locked |-> FALSE]

ExistingFile == [kind |-> "file", git |-> "none", backend |-> FALSE, locked |-> FALSE]

\* A directory with something in it.
ExistingDir == [kind |-> "dir", git |-> "none", backend |-> FALSE, locked |-> FALSE]

\* A symbolic link whose target does not exist.
DanglingSymlink ==
    [kind |-> "symlink", git |-> "none", backend |-> FALSE, locked |-> FALSE]

\* Path::exists follows symbolic links: it is false for a link whose target
\* does not exist.
exists(fsys, path) == fsys[path].kind \notin {"none", "symlink"}

\* Path::is_dir
is_dir(fsys, path) == fsys[path].kind = "dir"

\* A conflict check that only looks for directories.
check_directory_conflict_dirs_only(self, fsys) ==
    IF is_dir(fsys, self.name)
    THEN Err("Directory already exists!")
    ELSE Ok

\* A conflict check that only looks for files.
check_directory_conflict_files_only(self, fsys) ==
    IF exists(fsys, self.name) /\ ~is_dir(fsys, self.name)
    THEN Err("A file named already exists in the current directory.")
    ELSE Ok

(* ProjectSetup::check_directory_conflict *)
check_directory_conflict(self, fsys) ==
    IF exists(fsys, self.name)
    THEN IF is_dir(fsys, self.name)
         THEN Err("Directory already exists!")
         ELSE Err("A file named already exists in the current directory.")
    ELSE Ok

----------------------------------------------------------------------------
(* ProjectSetup::calculate_total_steps *)

\* A total that counts each distinct component once.
calculate_total_steps_distinct(self) ==
    1 + Cardinality({ self.selected_components[i] : i \in DOMAIN self.selected_components })
      + 1 + 1

\* A total that counts the components only.
calculate_total_steps_components_only(self) == Len(self.selected_components)

calculate_total_steps(self) ==
    1 +                              \* cargo new
    Len(self.selected_components) +  \* component dependencies
    1 +                              \* template generation
    1                                \* common dependencies

----------------------------------------------------------------------------
(* indicatif::ProgressBar, as build uses it *)

\* ProjectSetup::create_progress_bar; the style template is a constant that
\* parses, so the Err branch of its `?` is never taken.
\* Besides the state of the bar, incs records the sum of the increments that
\* inc has made.
create_progress_bar(total_steps) ==
    [pos |-> 0, len |-> total_steps, msg |-> <<>>, finished |-> FALSE, incs |-> 0]

set_message(bar, msg) == [bar EXCEPT !.msg = msg]

inc(bar, delta) == [bar EXCEPT !.pos = @ + delta, !.incs = @ + delta]

\* finish_with_message moves the position to the length.
finish_with_message(bar, msg) ==
    [bar EXCEPT !.pos = bar.len, !.msg = msg, !.finished = TRUE]

----------------------------------------------------------------------------
(* ProjectSetup::print_next_steps *)

print_next_steps(self) ==
    [ name       |-> self.name,
      components |-> SelectSeq(self.selected_components,
                               LAMBDA c : c \in load_component_config),
      frontend   |-> self.selected_frontend,
      template   |-> IF determine_template(self) # None
                     THEN Some(determine_template(self)[1].name)
                     ELSE None ]

----------------------------------------------------------------------------
(* Invocations and their arguments *)

\* Two callers, each constructing one ProjectSetup and running build on it.
Builds == {"A", "B"}

Self(p) == setup[p][1]

app == <<"a","p","p">>

digit_first == <<"1","x">>

with_slash == <<"a","/","b">>

BuildNames == {app, digit_first, with_slash}

BuildSelections == {<<>>, <<ripress>>, <<RIPRESS, wynd>>, <<unknown>>, <<lume>>}

BuildFrontends == {None, Some("react")}

BuildArgs ==
    [name : BuildNames, components : BuildSelections, frontend : BuildFrontends]

\* What can lie at a project path before the tool runs.
InitialEntries == {Absent, ExistingFile, ExistingDir, DanglingSymlink}

----------------------------------------------------------------------------
(* External commands: tokio::process::Command ... .output().await          *)

\* The outcomes of running a program in working directory cwd: it cannot be
\* started at all when the working directory does not exist; otherwise it may
\* fail to start, exit with a failure status, or exit successfully.
CommandOutcomes(cwd_exists) ==
    IF cwd_exists THEN {"spawn_failed", "exit_failure", "success"}
    ELSE {"cwd_missing"}

Effect(op, arg, cwd, outcome) ==
    [op |-> op, arg |-> arg, cwd |-> cwd, outcome |-> outcome]

Failure(step, msg, cause) == [step |-> step, msg |-> msg, cause |-> cause]

\* build returns Err: the future completes and the object is dropped.
Fail(p, step, msg, cause) ==
    /\ pc' = [pc EXCEPT ![p] = "Failed"]
    /\ err' = [err EXCEPT ![p] = Some(Failure(step, msg, cause))]

\* No method has been called directly yet.
NoCalls == [validate_project_name |-> None,
            check_directory_conflict |-> None,
            calculate_total_steps |-> None]

----------------------------------------------------------------------------
(* Actions *)

New(p) ==
    /\ pc[p] = "new"
    /\ setup' = [setup EXCEPT
                   ![p] = Some(new(args[p].name, args[p].components, args[p].frontend))]
    /\ pc' = [pc EXCEPT ![p] = "ready"]
    /\ UNCHANGED <<args, earlier, calls, ret, total, pb, template, err, effects, printed, fs, fs0>>

\* A direct call of determine_template(&self), as the tests make it.
call_determine_template(p) ==
    /\ pc[p] = "ready"
    /\ ret' = [ret EXCEPT ![p] = Some(determine_template(Self(p)))]
    /\ UNCHANGED <<args, earlier, calls, pc, setup, total, pb, template, err, effects, printed, fs, fs0>>

\* build is called: self.validate_project_name()?
build_validate_project_name(p) ==
    /\ pc[p] = "ready"
    /\ LET r == validate_project_name(Self(p))
       IN  IF r.ok
           THEN pc' = [pc EXCEPT ![p] = "check_directory_conflict"] /\ err' = err
           ELSE Fail(p, "validate_project_name", r.msg, "")
    /\ earlier' = [earlier EXCEPT ![p] = { q \in Builds : pc[q] \in {"Completed", "Failed"} }]
    /\ UNCHANGED <<args, calls, setup, ret, total, pb, template, effects, printed, fs, fs0>>

\* build: self.check_directory_conflict()?
build_check_directory_conflict(p) ==
    /\ pc[p] = "check_directory_conflict"
    /\ LET r == check_directory_conflict(Self(p), fs)
       IN  IF r.ok
           THEN pc' = [pc EXCEPT ![p] = "create_progress_bar"] /\ err' = err
           ELSE Fail(p, "check_directory_conflict", r.msg, "")
    /\ UNCHANGED <<args, earlier, calls, setup, ret, total, pb, template, effects, printed, fs, fs0>>

\* build: total_steps = calculate_total_steps(); pb = create_progress_bar(total_steps)?
build_create_progress_bar(p) ==
    /\ pc[p] = "create_progress_bar"
    /\ total' = [total EXCEPT ![p] = Some(calculate_total_steps(Self(p)))]
    /\ pb' = [pb EXCEPT ![p] = Some(create_progress_bar(calculate_total_steps(Self(p))))]
    /\ pc' = [pc EXCEPT ![p] = "determine_template"]
    /\ UNCHANGED <<args, earlier, calls, setup, ret, template, err, effects, printed, fs, fs0>>

\* build: if let Some(template) = self.determine_template() { set_message } else
\* { set_message; inc(1) }; in the else branch also the set_message before
\* cargo update.
build_determine_template(p) ==
    /\ pc[p] = "determine_template"
    /\ LET t == determine_template(Self(p))
       IN  /\ template' = [template EXCEPT ![p] = t]
           /\ IF t # None
              THEN /\ pb' = [pb EXCEPT ![p] =
                        Some(set_message(pb[p][1],
                                         <<"Generating main.rs from {}...", t[1].name>>))]
                   /\ pc' = [pc EXCEPT ![p] = "git_clone"]
              ELSE /\ pb' = [pb EXCEPT ![p] =
                        Some(set_message(
                               inc(set_message(pb[p][1],
                                     <<"No specific template found, keeping default main.rs">>),
                                   1),
                               <<"Updating Cargo dependencies...">>))]
                   /\ pc' = [pc EXCEPT ![p] = "cargo_update"]
    /\ UNCHANGED <<args, earlier, calls, setup, ret, total, err, effects, printed, fs, fs0>>

\* build: git clone <github_url> <name>, run in the current directory.  git
\* creates the destination only when nothing (or an empty directory) is there,
\* and removes what it created when the clone fails; it cannot create it over
\* any other entry, a dangling symbolic link included.  Whether the template
\* holds a backend/ directory is unknown here.
build_git_clone(p) ==
    /\ pc[p] = "git_clone"
    /\ \E outcome \in CommandOutcomes(TRUE), has_backend \in BOOLEAN :
         LET self == Self(p)
             t    == template[p][1]
             free == fs[self.name].kind = "none"
             o    == IF outcome = "success" /\ ~free THEN "exit_failure" ELSE outcome
         IN  /\ (o # "success") => ~has_backend
             /\ effects' = [effects EXCEPT
                              ![p] = Append(@, Effect("git clone", t.github_url, ".", o))]
             /\ IF o = "success"
                THEN /\ fs' = [fs EXCEPT ![self.name] =
                                 [kind |-> "dir", git |-> "template",
                                  backend |-> has_backend, locked |-> FALSE]]
                     /\ pc' = [pc EXCEPT ![p] = "remove_git"]
                     /\ err' = err
                ELSE /\ fs' = fs
                     /\ IF o = "spawn_failed"
                        THEN Fail(p, "git clone", "Failed to execute git clone command", o)
                        ELSE Fail(p, "git clone", "Failed to clone template", o)
    /\ UNCHANGED <<args, earlier, calls, setup, ret, total, pb, template, printed, fs0>>

\* A cleanup that goes on to git init whether or not .git could be removed.
build_remove_git_ignores_error(p) ==
    /\ pc[p] = "remove_git"
    /\ LET self == Self(p)
           git_dir_exists == fs[self.name].kind = "dir" /\ fs[self.name].git # "none"
       IN  IF git_dir_exists
           THEN \E removed \in BOOLEAN :
                  /\ effects' = [effects EXCEPT
                        ![p] = Append(@, Effect("remove_dir_all", ".git", "project",
                                                IF removed THEN "success" ELSE "io_error"))]
                  /\ fs' = IF removed THEN [fs EXCEPT ![self.name].git = "none"] ELSE fs
           ELSE UNCHANGED <<effects, fs>>
    /\ pc' = [pc EXCEPT ![p] = "git_init"]
    /\ UNCHANGED <<args, earlier, calls, setup, ret, total, pb, template, err, printed, fs0>>

\* cleanup_and_reinit_git: if git_dir.exists() { fs::remove_dir_all(&git_dir)? }
build_remove_git(p) ==
    /\ pc[p] = "remove_git"
    /\ LET self == Self(p)
           git_dir_exists == fs[self.name].kind = "dir" /\ fs[self.name].git # "none"
       IN  IF git_dir_exists
           THEN \E removed \in BOOLEAN :
                  /\ effects' = [effects EXCEPT
                        ![p] = Append(@, Effect("remove_dir_all", ".git", "project",
                                                IF removed THEN "success" ELSE "io_error"))]
                  /\ IF removed
                     THEN /\ fs' = [fs EXCEPT ![self.name].git = "none"]
                          /\ pc' = [pc EXCEPT ![p] = "git_init"]
                          /\ err' = err
                     ELSE /\ fs' = fs
                          /\ Fail(p, "remove .git",
                                  "Failed to remove .git directory from cloned template",
                                  "io_error")
           ELSE /\ pc' = [pc EXCEPT ![p] = "git_init"]
                /\ UNCHANGED <<effects, fs, err>>
    /\ UNCHANGED <<args, earlier, calls, setup, ret, total, pb, template, printed, fs0>>

\* A git init whose exit status is not looked at: only a command that could
\* not be started fails the build.
build_git_init_ignores_status(p) ==
    /\ pc[p] = "git_init"
    /\ LET self == Self(p)
       IN  \E outcome \in CommandOutcomes(is_dir(fs, self.name)) :
             /\ effects' = [effects EXCEPT
                              ![p] = Append(@, Effect("git init", "", "project", outcome))]
             /\ fs' = IF outcome = "success"
                      THEN [fs EXCEPT ![self.name].git = "fresh"]
                      ELSE fs
             /\ IF outcome \in {"success", "exit_failure"}
                THEN /\ pb' = [pb EXCEPT ![p] =
                          Some(set_message(inc(pb[p][1], 1),
                                           <<"Updating Cargo dependencies...">>))]
                     /\ pc' = [pc EXCEPT ![p] = "cargo_update"]
                     /\ err' = err
                ELSE /\ pb' = pb
                     /\ Fail(p, "git init", "Failed to execute git init", outcome)
    /\ UNCHANGED <<args, earlier, calls, setup, ret, total, template, printed, fs0>>

\* cleanup_and_reinit_git: git init in the project directory; back in build,
\* pb.inc(1) and the set_message before cargo update.
build_git_init(p) ==
    /\ pc[p] = "git_init"
    /\ LET self == Self(p)
       IN  \E outcome \in CommandOutcomes(is_dir(fs, self.name)) :
             /\ effects' = [effects EXCEPT
                              ![p] = Append(@, Effect("git init", "", "project", outcome))]
             /\ IF outcome = "success"
                THEN /\ fs' = [fs EXCEPT ![self.name].git = "fresh"]
                     /\ pb' = [pb EXCEPT ![p] =
                          Some(set_message(inc(pb[p][1], 1),
                                           <<"Updating Cargo dependencies...">>))]
                     /\ pc' = [pc EXCEPT ![p] = "cargo_update"]
                     /\ err' = err
                ELSE /\ fs' = fs
                     /\ pb' = pb
                     /\ IF outcome = "exit_failure"
                        THEN Fail(p, "git init", "Failed to initialize git repository",
                                  outcome)
                        ELSE Fail(p, "git init", "Failed to execute git init", outcome)
    /\ UNCHANGED <<args, earlier, calls, setup, ret, total, template, printed, fs0>>

\* A refresh that always runs in the project root.
cargo_update_dir_root_only(self, fsys) == "project"

\* build: let cargo_update_dir = if backend_path.is_dir() { &backend_path }
\* else { &project_path }
cargo_update_dir(self, fsys) ==
    IF is_dir(fsys, self.name) /\ fsys[self.name].backend
    THEN "project/backend"
    ELSE "project"

\* build: cargo update in <name>/backend when that is a directory, else in
\* <name>; on success inc(1), finish_with_message, print_next_steps, Ok(()).
build_cargo_update(p) ==
    /\ pc[p] = "cargo_update"
    /\ LET self == Self(p)
       IN  \E outcome \in CommandOutcomes(is_dir(fs, self.name)) :
             /\ effects' = [effects EXCEPT
                   ![p] = Append(@, Effect("cargo update", "",
                                           cargo_update_dir(self, fs), outcome))]
             /\ IF outcome = "success"
                THEN /\ fs' = [fs EXCEPT ![self.name].locked = TRUE]
                     /\ pb' = [pb EXCEPT ![p] =
                          Some(finish_with_message(inc(pb[p][1], 1),
                                                   <<"Project setup complete!">>))]
                     /\ printed' = [printed EXCEPT ![p] = Some(print_next_steps(self))]
                     /\ pc' = [pc EXCEPT ![p] = "Completed"]
                     /\ err' = err
                ELSE /\ fs' = fs
                     /\ pb' = pb
                     /\ printed' = printed
                     /\ IF outcome = "exit_failure"
                        THEN Fail(p, "cargo update", "Failed to run 'cargo update'", outcome)
                        ELSE Fail(p, "cargo update", "Failed to execute cargo update",
                                  outcome)
    /\ UNCHANGED <<args, earlier, calls, setup, ret, total, template, fs0>>

----------------------------------------------------------------------------
(* Specification of the build pipeline *)

Init ==
    /\ args \in [Builds -> BuildArgs]
    /\ pc = [p \in Builds |-> "new"]
    /\ setup = [p \in Builds |-> None]
    /\ ret = [p \in Builds |-> None]
    /\ calls = [p \in Builds |-> NoCalls]
    /\ earlier = [p \in Builds |-> {}]
    /\ total = [p \in Builds |-> None]
    /\ pb = [p \in Builds |-> None]
    /\ template = [p \in Builds |-> None]
    /\ err = [p \in Builds |-> None]
    /\ effects = [p \in Builds |-> <<>>]
    /\ printed = [p \in Builds |-> None]
    /\ \E e \in InitialEntries :
         fs = [n \in BuildNames |-> IF n = app THEN e ELSE Absent]
    /\ fs0 = fs

Next ==
    \E p \in Builds :
        \/ New(p)
        \/ build_validate_project_name(p)
        \/ build_check_directory_conflict(p)
        \/ build_create_progress_bar(p)
        \/ build_determine_template(p)
        \/ build_git_clone(p)
        \/ build_remove_git(p)
        \/ build_git_init(p)
        \/ build_cargo_update(p)

Spec == Init /\ [][Next]_vars

----------------------------------------------------------------------------
(* Specification of the resolver: one caller constructs a ProjectSetup     *)
(* from any bounded selection and calls determine_template on it.          *)

MaxComponents == 4

RawIds == {ripress, RIPRESS, wynd, WyNd, lume, unknown, extraUnknown}

Selections == UNION { [1..n -> RawIds] : n \in 0..MaxComponents }

Frontends == {None, Some("react"), Some("svelte"), Some("React"), Some("vue")}

ResolverArgs == [name : {app}, components : Selections, frontend : Frontends]

IdleArgs == [name |-> app, components |-> <<>>, frontend |-> None]

InitResolver ==
    /\ \E a \in ResolverArgs : args = [p \in Builds |-> IF p = "A" THEN a ELSE IdleArgs]
    /\ pc = [p \in Builds |-> "new"]
    /\ setup = [p \in Builds |-> None]
    /\ ret = [p \in Builds |-> None]
    /\ calls = [p \in Builds |-> NoCalls]
    /\ earlier = [p \in Builds |-> {}]
    /\ total = [p \in Builds |-> None]
    /\ pb = [p \in Builds |-> None]
    /\ template = [p \in Builds |-> None]
    /\ err = [p \in Builds |-> None]
    /\ effects = [p \in Builds |-> <<>>]
    /\ printed = [p \in Builds |-> None]
    /\ fs = [n \in BuildNames |-> Absent]
    /\ fs0 = fs

NextResolver == New("A") \/ call_determine_template("A")

SpecResolver == InitResolver /\ [][NextResolver]_vars

----------------------------------------------------------------------------
(* Specification of the direct calls: one caller constructs a ProjectSetup *)
(* and calls validate_project_name, check_directory_conflict and           *)
(* calculate_total_steps on it, each at most once, in any order, as the    *)
(* tests do.                                                               *)

\* A direct call of validate_project_name(&self).
call_validate_project_name(p) ==
    /\ pc[p] = "ready"
    /\ calls[p].validate_project_name = None
    /\ calls' = [calls EXCEPT
                   ![p].validate_project_name = Some(validate_project_name(Self(p)))]
    /\ UNCHANGED <<args, earlier, pc, setup, ret, total, pb, template, err, effects, printed,
                   fs, fs0>>

\* A direct call of check_directory_conflict(&self).
call_check_directory_conflict(p) ==
    /\ pc[p] = "ready"
    /\ calls[p].check_directory_conflict = None
    /\ calls' = [calls EXCEPT
                   ![p].check_directory_conflict =
                       Some(check_directory_conflict(Self(p), fs))]
    /\ UNCHANGED <<args, earlier, pc, setup, ret, total, pb, template, err, effects, printed,
                   fs, fs0>>

\* A direct call of calculate_total_steps(&self).
call_calculate_total_steps(p) ==
    /\ pc[p] = "ready"
    /\ calls[p].calculate_total_steps = None
    /\ calls' = [calls EXCEPT
                   ![p].calculate_total_steps = Some(calculate_total_steps(Self(p)))]
    /\ UNCHANGED <<args, earlier, pc, setup, ret, total, pb, template, err, effects, printed,
                   fs, fs0>>

MaxShortName == 2

MaxCallComponents == 3

\* n copies of the character c.
Rep(c, n) == [i \in 1..n |-> c]

NameChars == {"a", "_", "1", "/", "-", "U+00E9"}

ShortNames == UNION { [1..n -> NameChars] : n \in 0..MaxShortName }

my_app == <<"m","y","-","a","p","p">>

\* Names around the length limit: 49, 50 and 51 letters; 50 and 49 characters
\* with one letter outside ASCII; 51 characters with a forbidden one; 51
\* characters starting with a digit; 50 characters starting with a digit.
LongNames ==
    { Rep("a", MaxNameLen - 1), Rep("a", MaxNameLen), Rep("a", MaxNameLen + 1),
      <<"U+00E9">> \o Rep("a", MaxNameLen - 1),
      <<"U+00E9">> \o Rep("a", MaxNameLen - 2),
      Rep("a", MaxNameLen) \o <<"/">>,
      <<"1">> \o Rep("a", MaxNameLen),
      <<"1">> \o Rep("a", MaxNameLen - 1) }

CallNames == ShortNames \cup LongNames \cup {my_app, app}

CallIds == {ripress, RIPRESS, unknown}

CallSelections == UNION { [1..n -> CallIds] : n \in 0..MaxCallComponents }

\* Either the name varies or the selection and the frontend do.
CallArgs ==
    [name : CallNames, components : {<<ripress>>}, frontend : {None}]
    \cup [name : {app}, components : CallSelections, frontend : Frontends]

InitCalls ==
    /\ \E a \in CallArgs : args = [p \in Builds |-> IF p = "A" THEN a ELSE IdleArgs]
    /\ pc = [p \in Builds |-> "new"]
    /\ setup = [p \in Builds |-> None]
    /\ ret = [p \in Builds |-> None]
    /\ calls = [p \in Builds |-> NoCalls]
    /\ earlier = [p \in Builds |-> {}]
    /\ total = [p \in Builds |-> None]
    /\ pb = [p \in Builds |-> None]
    /\ template = [p \in Builds |-> None]
    /\ err = [p \in Builds |-> None]
    /\ effects = [p \in Builds |-> <<>>]
    /\ printed = [p \in Builds |-> None]
    /\ \E e \in InitialEntries :
         fs = [n \in CallNames |-> IF n = args["A"].name THEN e ELSE Absent]
    /\ fs0 = fs

NextCalls ==
    \/ New("A")
    \/ call_validate_project_name("A")
    \/ call_check_directory_conflict("A")
    \/ call_calculate_total_steps("A")

SpecCalls == InitCalls /\ [][NextCalls]_vars

----------------------------------------------------------------------------
(* Vocabulary of the resolver claims *)

Range(q) == { q[i] : i \in DOMAIN q }

\* The caller has constructed its ProjectSetup and determine_template returned.
Called(p) == setup[p] # None /\ ret[p] # None

Result(p) == ret[p][1]

\* The set of lowercase-normalized identifiers of the selection handed to new.
NormSet(p) == { to_lowercase(args[p].components[i]) : i \in DOMAIN args[p].components }

Known == {ripress, wynd, lume}

UnknownIds == {unknown, extraUnknown, <<"X">>}

\* Candidates of the priority list that applies to caller p's frontend.
Candidates(p) == template_priorities(args[p].frontend)

\* What determine_template returns for a selection and frontend given to new.
Resolve(components, frontend) == determine_template(new(app, components, frontend))

\* The single-component key of the first of ripress, wynd, lume in set S.
FallbackKey(p, S) ==
    LET c == IF ripress \in S THEN ripress ELSE IF wynd \in S THEN wynd ELSE lume
        i == CHOOSE i \in DOMAIN Candidates(p) : Candidates(p)[i][2] = <<c>>
    IN  Candidates(p)[i][1]

IsMultiTemplate(p, r) ==
    \E i \in DOMAIN Candidates(p) :
        /\ Len(Candidates(p)[i][2]) > 1
        /\ r = Get(load_templates, Candidates(p)[i][1])
        /\ r # None

----------------------------------------------------------------------------
(* C1 *)

\* C1: for every frontend variant and every selection, determine_template
\* returns a multi-component template (required set of size 2 or 3) if and
\* only if the set of normalized selected identifiers equals that template's
\* required set; so a selection with an extra identifier never yields it, and
\* the full set always yields the three-component template.
C1_MultiExactMatch ==
    \A p \in Builds :
        Called(p) =>
            LET selected == NormSet(p)
                cands    == Candidates(p)
            IN  \A i \in DOMAIN cands :
                    LET key == cands[i][1]
                        req == cands[i][2]
                    IN  Len(req) > 1 =>
                            /\ Get(load_templates, key) # None
                            /\ (Result(p) = Get(load_templates, key))
                                   <=> (selected = Range(req))

\* The full set plus one more identifier was resolved under svelte: not to
\* the three-component template, nor to a two-component one.
C1_Witness ==
    \E p \in Builds :
        /\ Called(p)
        /\ args[p].components = <<WyNd, lume, RIPRESS, unknown>>
        /\ args[p].frontend = Some("svelte")
        /\ Result(p) = Some(load_templates["ripress-svelte"])
        /\ Resolve(<<WyNd, lume, RIPRESS>>, Some("svelte"))
              = Some(load_templates["ripress-wynd-lume-svelte"])

----------------------------------------------------------------------------
(* C2 *)

\* C2: when the normalized set is a two-component required set plus at least
\* one identifier that is no known component, determine_template does not
\* return that two-component template; it returns the single-component
\* template of the first contained component in the order ripress, wynd, lume
\* for the chosen frontend variant.
C2_PairPlusUnknownFallsBack ==
    \A p \in Builds :
        Called(p) =>
            LET selected == NormSet(p)
                cands    == Candidates(p)
            IN  \A i \in DOMAIN cands :
                    LET key   == cands[i][1]
                        req   == Range(cands[i][2])
                        extra == selected \ req
                    IN  (/\ Cardinality(req) = 2
                         /\ req \subseteq selected
                         /\ extra # {}
                         /\ extra \cap Known = {})
                        => /\ Result(p) # Get(load_templates, key)
                           /\ Result(p) # None
                           /\ Result(p) = Get(load_templates, FallbackKey(p, req))

\* {ripress, wynd, extraUnknown} without frontend was resolved to Ripress Basic.
C2_Witness ==
    \E p \in Builds :
        /\ Called(p)
        /\ args[p].components = <<ripress, wynd, extraUnknown>>
        /\ args[p].frontend = None
        /\ Result(p) = Some(load_templates["ripress"])

----------------------------------------------------------------------------
(* C3 *)

\* C3 as stated: for every selection and frontend, adding an identifier that
\* is no known component does not change what determine_template returns.
C3_UnknownNeverChangesResult ==
    \A p \in Builds :
        Called(p) =>
            \A u \in UnknownIds :
                Resolve(Append(args[p].components, u), args[p].frontend) = Result(p)

\* C3 as amended: adding an identifier that is no known component leaves the
\* result unchanged unless it is new to a selection that resolved to a
\* multi-component template; then the added identifier breaks the exact match
\* and the result is the single-component template of the first selected
\* component in the order ripress, wynd, lume.
C3_UnknownChangesOnlyMultiMatch ==
    \A p \in Builds :
        Called(p) =>
            \A u \in UnknownIds :
                LET r2 == Resolve(Append(args[p].components, u), args[p].frontend)
                IN  IF IsMultiTemplate(p, Result(p)) /\ to_lowercase(u) \notin NormSet(p)
                    THEN /\ r2 # Result(p)
                         /\ r2 = Get(load_templates, FallbackKey(p, NormSet(p)))
                         /\ r2 # None
                    ELSE r2 = Result(p)

\* A selection with one known and one unknown identifier was resolved, and a
\* pair was resolved to its two-component template.
C3_Witness ==
    \E p \in Builds :
        /\ Called(p)
        /\ args[p].components = <<wynd, lume>>
        /\ args[p].frontend = Some("react")
        /\ Result(p) = Some(load_templates["wynd-lume-react"])
        /\ Resolve(<<wynd, lume, unknown>>, Some("react")) = Some(load_templates["wynd-react"])

----------------------------------------------------------------------------
(* C4 *)

UpperOf(c) ==
    IF \E i \in DOMAIN LowerChars : LowerChars[i] = c
    THEN UpperChars[CHOOSE i \in DOMAIN LowerChars : LowerChars[i] = c]
    ELSE c

ToUpper(l) == [k \in 1..Len(l) |-> [i \in 1..Len(l[k]) |-> UpperOf(l[k][i])]]

ToLower(l) == [k \in 1..Len(l) |-> to_lowercase(l[k])]

\* C4: new stores every selected identifier in lowercase, and a selection
\* resolves, with the same frontend, to the identical template as its
\* all-lowercase and its all-uppercase spelling do (so any two lists that
\* differ only in letter case resolve alike); {RIPRESS, WyNd} resolves as
\* {ripress, wynd} does, to "Ripress + Wynd".
C4_CaseInsensitive ==
    \A p \in Builds :
        /\ setup[p] # None =>
              /\ Len(Self(p).selected_components) = Len(args[p].components)
              /\ \A i \in DOMAIN Self(p).selected_components :
                    LET c == Self(p).selected_components[i]
                    IN  /\ Len(c) = Len(args[p].components[i])
                        /\ \A j \in DOMAIN c :
                              /\ c[j] \notin Range(UpperChars)
                              /\ c[j] \in {args[p].components[i][j],
                                           char_to_lowercase(args[p].components[i][j])}
        /\ Called(p) =>
              /\ Resolve(ToLower(args[p].components), args[p].frontend) = Result(p)
              /\ Resolve(ToUpper(args[p].components), args[p].frontend) = Result(p)
              /\ (args[p].components = <<RIPRESS, WyNd>> /\ args[p].frontend = None)
                    => Result(p) = Some(load_templates["ripress_wynd"])

\* {RIPRESS, WyNd} was resolved to the template of {ripress, wynd}.
C4_Witness ==
    \E p \in Builds :
        /\ Called(p)
        /\ args[p].components = <<RIPRESS, WyNd>>
        /\ args[p].frontend = None
        /\ Self(p).selected_components = <<ripress, wynd>>
        /\ Result(p) = Some(load_templates["ripress_wynd"])

----------------------------------------------------------------------------
(* C5 *)

RECURSIVE SetToSeq(_)
\* One fixed duplicate-free listing of a set, the same for every list that
\* has this set of elements.
SetToSeq(S) ==
    IF S = {} THEN <<>>
    ELSE LET x == CHOOSE x \in S : TRUE IN <<x>> \o SetToSeq(S \ {x})

Reverse(l) == [i \in 1..Len(l) |-> l[Len(l) + 1 - i]]

\* C5: the result depends only on the set of normalized identifiers and the
\* frontend: a selection resolves as the duplicate-free listing of its set
\* does (so any two lists with the same set resolve alike), as its reversal
\* and as itself with an element repeated; duplicates stay in the stored
\* list; and the result is absent or exactly one template of the registry.
C5_FunctionOfSet ==
    \A p \in Builds :
        /\ setup[p] # None => Len(Self(p).selected_components) = Len(args[p].components)
        /\ Called(p) =>
              /\ Resolve(SetToSeq(NormSet(p)), args[p].frontend) = Result(p)
              /\ Resolve(Reverse(args[p].components), args[p].frontend) = Result(p)
              /\ \A i \in DOMAIN args[p].components :
                    Resolve(Append(args[p].components, args[p].components[i]),
                            args[p].frontend) = Result(p)
              /\ \/ Result(p) = None
                 \/ \E k \in DOMAIN load_templates : Result(p) = Some(load_templates[k])

\* {ripress, RIPRESS, wynd}: three stored entries, resolved to "Ripress + Wynd".
C5_Witness ==
    \E p \in Builds :
        /\ Called(p)
        /\ args[p].components = <<ripress, RIPRESS, wynd>>
        /\ args[p].frontend = None
        /\ Self(p).selected_components = <<ripress, ripress, wynd>>
        /\ Result(p) = Some(load_templates["ripress_wynd"])

----------------------------------------------------------------------------
(* C6 *)

\* The three families of the registry, as load_templates groups them.
BasicTemplates ==
    { load_templates[k] : k \in {"ripress", "wynd", "lume", "ripress_wynd",
                                 "ripress_lume", "wynd_lume", "ripress_wynd_lume"} }

ReactTemplates ==
    { load_templates[k] : k \in {"ripress-react", "wynd-react", "ripress-wynd-react",
                                 "ripress-lume-react", "wynd-lume-react",
                                 "ripress-wynd-lume-react"} }

SvelteTemplates ==
    { load_templates[k] : k \in {"ripress-svelte", "wynd-svelte", "ripress-wynd-svelte",
                                 "ripress-lume-svelte", "wynd-lume-svelte",
                                 "ripress-wynd-lume-svelte"} }

\* C6: with frontend "react" (resp. "svelte") determine_template returns only
\* React (resp. Svelte) templates and with no frontend only basic ones;
\* {ripress, wynd} with "react" resolves to "Ripress + Wynd + React",
\* {ripress} with "react" to "Ripress + React", {ripress} with no frontend to
\* "Ripress Basic".
C6_FrontendSelectsFamily ==
    \A p \in Builds :
        Called(p) =>
            LET selected == NormSet(p)
                frontend == args[p].frontend
                r        == Result(p)
            IN  /\ (r # None /\ frontend = Some("react"))  => r[1] \in ReactTemplates
                /\ (r # None /\ frontend = Some("svelte")) => r[1] \in SvelteTemplates
                /\ (r # None /\ frontend = None)           => r[1] \in BasicTemplates
                /\ (selected = {ripress, wynd} /\ frontend = Some("react"))
                      => /\ r # None
                         /\ r[1].name = "Ripress + Wynd + React"
                /\ (selected = {ripress} /\ frontend = Some("react"))
                      => /\ r # None
                         /\ r[1].name = "Ripress + React"
                /\ (selected = {ripress} /\ frontend = None)
                      => /\ r # None
                         /\ r[1].name = "Ripress Basic"

\* {ripress, wynd} with "react" was resolved to "Ripress + Wynd + React".
C6_Witness ==
    \E p \in Builds :
        /\ Called(p)
        /\ args[p].components = <<ripress, wynd>>
        /\ args[p].frontend = Some("react")
        /\ Result(p) # None
        /\ Result(p)[1].name = "Ripress + Wynd + React"

----------------------------------------------------------------------------
(* C7 *)

\* Candidate i of p's priority list matches set S by the resolver's rule:
\* containment, and equality for a required set of more than one component.
Matches(p, i, S) ==
    LET req == Range(Candidates(p)[i][2])
    IN  /\ req \subseteq S
        /\ Cardinality(req) > 1 => S = req

\* C7: for each frontend variant and each non-empty subset of {ripress, wynd,
\* lume}, the key the priority list assigns to the combination is present in
\* load_templates: the first candidate that matches a selection yields a
\* template, its lookup never comes back absent.
C7_RegistryComplete ==
    \A p \in Builds :
        Called(p) =>
            LET selected == NormSet(p)
            IN  \A i \in DOMAIN Candidates(p) :
                    (/\ Matches(p, i, selected)
                     /\ \A j \in 1..(i - 1) : ~Matches(p, j, selected))
                    => /\ Candidates(p)[i][1] \in DOMAIN load_templates
                       /\ Result(p) = Some(load_templates[Candidates(p)[i][1]])

----------------------------------------------------------------------------
(* C8 *)

\* C8: a selection containing no known component (the empty selection, or
\* only unknown identifiers) resolves to None for every frontend variant.
C8_NoKnownComponentIsAbsent ==
    \A p \in Builds :
        Called(p) => (NormSet(p) \cap Known = {} => Result(p) = None)

\* {unknown} with "svelte" was resolved to None.
C8_Witness ==
    \E p \in Builds :
        /\ Called(p)
        /\ args[p].components = <<unknown>>
        /\ args[p].frontend = Some("svelte")
        /\ Result(p) = None

----------------------------------------------------------------------------
(* Vocabulary of the pipeline claims *)

ValidateSteps == {"validate_project_name", "check_directory_conflict"}

FailedAt(p, steps) == pc[p] = "Failed" /\ err[p] # None /\ err[p][1].step \in steps

\* Positions of build before the Validate step has let the invocation pass.
InValidate(p) ==
    \/ pc[p] \in {"new", "ready", "check_directory_conflict"}
    \/ FailedAt(p, ValidateSteps)

\* build resolved no template: it stands before, or is past, the refresh
\* step, and its local `template` is None.
ResolvedAbsent(p) ==
    /\ template[p] = None
    /\ \/ pc[p] \in {"cargo_update", "Completed"}
       \/ pc[p] = "Failed" /\ ~FailedAt(p, ValidateSteps)

----------------------------------------------------------------------------
(* C9 *)

\* C9: if the project name is invalid, or a file or directory exists at the
\* destination, build returns an error at the Validate step; an invocation
\* that fails there has run no external command and changed no filesystem
\* entry, and while no invocation has had any effect the current directory
\* is as it was.
C9_ValidationPrecedesMutation ==
    /\ \A p \in Builds :
          setup[p] # None =>
              LET invalid  == ~validate_project_name(Self(p)).ok
                  occupied == exists(fs0, Self(p).name)
              IN  /\ (invalid \/ occupied) => InValidate(p)
                  /\ invalid => pc[p] # "check_directory_conflict"
                  /\ InValidate(p) => effects[p] = <<>>
    /\ (\A q \in Builds : effects[q] = <<>>) => fs = fs0

\* One invocation failed at the conflict check on a directory that was there
\* from the start, another on an invalid name.
C9_Witness ==
    \E p, q \in Builds :
        /\ FailedAt(p, {"check_directory_conflict"})
        /\ fs0[Self(p).name] = ExistingDir
        /\ FailedAt(q, {"validate_project_name"})
        /\ effects[p] = <<>> /\ effects[q] = <<>>
        /\ fs = fs0

----------------------------------------------------------------------------
(* C10 *)

\* C10: for a valid name with a free destination and a selection that
\* resolves to no template, build performs no clone, proceeds to the
\* dependency-refresh step, and does not end in Failed because of the
\* missing template: if it fails, it fails at the refresh step and not for
\* want of the project directory that only a clone would have created.
C10_AbsentTemplateNotFailure ==
    \A p \in Builds :
        ResolvedAbsent(p) =>
            /\ \A i \in DOMAIN effects[p] : effects[p][i].op # "git clone"
            /\ pc[p] = "Failed" =>
                  /\ err[p][1].step = "cargo update"
                  /\ err[p][1].cause # "cwd_missing"

----------------------------------------------------------------------------
(* Vocabulary of the pipeline claims *)

\* The positions in effects[p] of the runs of op.
Runs(p, op) == { i \in DOMAIN effects[p] : effects[p][i].op = op }

Succeeded(p, i) == effects[p][i].outcome = "success"

\* The invocation resolved a template.
Resolved(p) == template[p] # None

\* build returned Ok(()) and said so.
ReportedSuccess(p) ==
    \/ pc[p] = "Completed"
    \/ printed[p] # None
    \/ (pb[p] # None /\ pb[p][1].finished)

----------------------------------------------------------------------------
(* C11: in a build that resolved a template, every cargo update is preceded *)
(* by a successful removal of the cloned .git and, after it, a successful   *)
(* git init in the project directory; a completed build leaves a fresh      *)
(* repository at the destination; and a build in which the removal or git   *)
(* init did not succeed is Failed and reports no success.                   *)
C11_TemplateHistoryNeverLeaks ==
    \A p \in Builds :
        /\ Resolved(p) =>
             \A k \in Runs(p, "cargo update") :
                \E i \in Runs(p, "remove_dir_all"), j \in Runs(p, "git init") :
                    /\ i < j /\ j < k
                    /\ Succeeded(p, i) /\ Succeeded(p, j)
                    /\ effects[p][i].arg = ".git"
                    /\ effects[p][j].cwd = "project"
        /\ (Resolved(p) /\ pc[p] = "Completed") =>
             /\ Runs(p, "cargo update") # {}
             /\ fs[Self(p).name].git = "fresh"
        /\ (\E i \in Runs(p, "remove_dir_all") \cup Runs(p, "git init") :
               ~Succeeded(p, i)) =>
             /\ pc[p] = "Failed"
             /\ err[p] # None /\ err[p][1].step \in {"remove .git", "git init"}
             /\ ~ReportedSuccess(p)

\* A build that resolved a template has completed.
C11_Witness ==
    \E p \in Builds :
        /\ Resolved(p) /\ pc[p] = "Completed"
        /\ Len(effects[p]) = 4
        /\ fs[Self(p).name].git = "fresh"

----------------------------------------------------------------------------
\* The invocation is inside build, past check_directory_conflict.
RunningPastCheck(p) ==
    pc[p] \in {"create_progress_bar", "determine_template", "git_clone",
               "remove_git", "git_init", "cargo_update"}

SameName(p, q) ==
    /\ p # q
    /\ setup[p] # None /\ setup[q] # None
    /\ Self(p).name = Self(q).name

(* C12: of two builds of the same name that run at the same time, at most   *)
(* one is past check_directory_conflict, and none of them fails at git      *)
(* clone because the other one created the destination.                     *)
C12_ConflictAtValidate ==
    \A p, q \in Builds :
        SameName(p, q) =>
            /\ ~(RunningPastCheck(p) /\ RunningPastCheck(q))
            /\ ~(/\ FailedAt(q, {"git clone"})
                 /\ err[q][1].cause = "exit_failure"
                 /\ Runs(p, "git clone") # {}
                 /\ \A i \in Runs(p, "git clone") : Succeeded(p, i))

----------------------------------------------------------------------------
(* Vocabulary of the direct-call claims *)

Validated(p) == setup[p] # None /\ calls[p].validate_project_name # None

ValidateResult(p) == calls[p].validate_project_name[1]

\* The rules of the name validator, in the order in which they are tested,
\* with the length counted in characters.
NameVerdict(name) ==
    IF Len(name) = 0 THEN "Project name cannot be empty"
    ELSE IF Len(name) > 50 THEN "Project name is too long (max 50 characters)"
    ELSE IF \E i \in DOMAIN name : name[i] \in {"/", "\\", ":", "*", "?", "\"", "<", ">", "|"}
    THEN "Project name contains invalid characters"
    ELSE IF ~(is_alphabetic(name[1]) \/ name[1] = "_")
    THEN "Project name must start with a letter or underscore"
    ELSE ""

(* C13: validate_project_name accepts a name exactly when it is non-empty,  *)
(* has at most 50 characters, holds none of / \ : * ? " < > | and starts    *)
(* with a letter or an underscore, and otherwise reports the first violated *)
(* rule in the order empty, too long, invalid character, bad first          *)
(* character.                                                               *)
C13_NameRules ==
    \A p \in Builds :
        Validated(p) =>
            /\ ValidateResult(p).ok = (NameVerdict(Self(p).name) = "")
            /\ ValidateResult(p).msg = NameVerdict(Self(p).name)

----------------------------------------------------------------------------
ConflictChecked(p) == setup[p] # None /\ calls[p].check_directory_conflict # None

ConflictResult(p) == calls[p].check_directory_conflict[1]

(* C14: check_directory_conflict returns an error exactly when an entry of  *)
(* any kind lies at the project path: the directory error when the entry is *)
(* a directory, the file error for every other entry, Ok when there is      *)
(* none; the call changes neither the current directory nor the             *)
(* ProjectSetup.                                                            *)
C14_ConflictCheckIsPure ==
    \A p \in Builds :
        ConflictChecked(p) =>
            LET entry == fs0[Self(p).name]
            IN  /\ ConflictResult(p).ok = (entry.kind = "none")
                /\ (entry.kind = "dir") =>
                      ConflictResult(p).msg = "Directory already exists!"
                /\ (entry.kind \notin {"none", "dir"}) =>
                      ConflictResult(p).msg =
                          "A file named already exists in the current directory."
                /\ fs = fs0
                /\ setup[p] = Some(new(args[p].name, args[p].components,
                                       args[p].frontend))

----------------------------------------------------------------------------
\* build has computed total_steps and created the progress bar.
TotalComputed(p) == total[p] # None /\ pb[p] # None

(* C15: in a build of the selection ripress with no frontend the total step *)
(* count is 2: one step to materialize the template and one to refresh the  *)
(* dependencies.                                                            *)
C15_RipressTotalIsTwo ==
    \A p \in Builds :
        (/\ TotalComputed(p)
         /\ Self(p).selected_components = <<ripress>>
         /\ Self(p).selected_frontend = None) =>
            /\ total[p][1] = 2
            /\ pb[p][1].len = 2

----------------------------------------------------------------------------
StepsCalled(p) == setup[p] # None /\ calls[p].calculate_total_steps # None

(* C16: calculate_total_steps returns 3 plus the number of entries of the   *)
(* component list handed to new, duplicates counted, whatever the frontend  *)
(* and whether or not a template resolves.                                  *)
C16_TotalIsThreePlusEntries ==
    \A p \in Builds :
        StepsCalled(p) =>
            calls[p].calculate_total_steps[1] = 3 + Len(args[p].components)

\* The total of a list that names the same component twice, with a frontend.
C16_Witness ==
    \E p \in Builds :
        /\ StepsCalled(p)
        /\ args[p].components = <<ripress, RIPRESS>>
        /\ args[p].frontend = Some("react")
        /\ calls[p].calculate_total_steps[1] = 5

----------------------------------------------------------------------------
\* The progress bar shows the total computed by build and a position within it.
ProgressBounded(p) ==
    /\ (pb[p] # None) =>
          /\ total[p] # None
          /\ pb[p][1].len = total[p][1]
          /\ pb[p][1].pos \in 0..pb[p][1].len
    /\ (effects[p] # <<>>) => TotalComputed(p)

\* The label that build sets before the commands of a step.
StepLabel(p, op) ==
    IF op = "cargo update"
    THEN <<"Updating Cargo dependencies...">>
    ELSE <<"Generating main.rs from {}...", template[p][1].name>>

\* One step of the model: the total and the length of the bar stay as they
\* are, the position does not go back, and a command is started under the
\* label of its step.
ProgressStep(p) ==
    /\ (total[p] # None) => total'[p] = total[p]
    /\ (pb[p] # None) =>
          /\ pb'[p] # None
          /\ pb'[p][1].len = pb[p][1].len
          /\ pb'[p][1].pos >= pb[p][1].pos
    /\ (effects'[p] # effects[p]) =>
          /\ Len(effects'[p]) = Len(effects[p]) + 1
          /\ pb[p] # None
          /\ pb[p][1].msg = StepLabel(p, effects'[p][Len(effects'[p])].op)

(* C17: the total is computed once, before the first command, and never     *)
(* changes; the position of the progress bar never decreases and never      *)
(* exceeds the total; and the label of a step is set before its command is  *)
(* started.                                                                 *)
C17_ProgressMonotoneAndBounded ==
    /\ [](\A p \in Builds : ProgressBounded(p))
    /\ [][\A p \in Builds : ProgressStep(p)]_vars

\* A build has advanced its bar twice and finished it.
C17_Witness ==
    \E p \in Builds :
        /\ pb[p] # None /\ pb[p][1].finished
        /\ pb[p][1].pos = pb[p][1].len
        /\ Runs(p, "git clone") # {} /\ Runs(p, "cargo update") # {}

----------------------------------------------------------------------------
\* The place of a command in the order of build.
Rank(op) ==
    CASE op = "git clone"      -> 1
      [] op = "remove_dir_all" -> 2
      [] op = "git init"       -> 3
      [] op = "cargo update"   -> 4

\* The commands run so far are in the order of build, and each one but the
\* last succeeded; the destination is checked only for a valid name, and the
\* template resolved and commands run only after both checks passed; the first one
\* of a build with a template is the clone, and a build without one runs
\* cargo update only; a build whose last command failed is Failed, and a
\* Failed build has not reported success.
Sequential(p) ==
    LET n == Len(effects[p])
    IN  /\ \A i, j \in 1..n : i < j => Rank(effects[p][i].op) < Rank(effects[p][j].op)
        /\ \A i \in 1..n : i < n => Succeeded(p, i)
        /\ FailedAt(p, {"check_directory_conflict"}) => validate_project_name(Self(p)).ok
        /\ (TotalComputed(p) \/ Resolved(p)) =>
              /\ ~InValidate(p) /\ ~FailedAt(p, ValidateSteps)
              /\ validate_project_name(Self(p)).ok
        /\ (n > 0) =>
              /\ ~InValidate(p) /\ ~FailedAt(p, ValidateSteps)
              /\ effects[p][1].op = (IF Resolved(p) THEN "git clone" ELSE "cargo update")
              /\ ~Succeeded(p, n) => pc[p] = "Failed"
        /\ (pc[p] = "Failed") =>
              /\ err[p] # None
              /\ printed[p] = None
              /\ (pb[p] # None) => ~pb[p][1].finished
        /\ (printed[p] # None) =>
              /\ pc[p] = "Completed"
              /\ n > 0 /\ effects[p][n].op = "cargo update"
              /\ \A i \in 1..n : Succeeded(p, i)

\* Nothing happens in a build that has failed.
FailureIsTerminal(p) ==
    (pc[p] = "Failed") =>
        /\ pc'[p] = "Failed"
        /\ effects'[p] = effects[p]
        /\ err'[p] = err[p]
        /\ printed'[p] = printed[p]
        /\ pb'[p] = pb[p]

(* C18: the steps of build run one after the other in the order validate    *)
(* name, check destination, resolve template, git clone, .git removal, git  *)
(* init, cargo update, report; no step starts unless every earlier one      *)
(* succeeded; and after the first failing step the build runs no further    *)
(* command and prints no summary.                                           *)
C18_SequentialAndFailureTerminal ==
    /\ [](\A p \in Builds : Sequential(p))
    /\ [][\A p \in Builds : FailureIsTerminal(p)]_vars

\* A build has failed at git init, after the clone and the removal of .git.
C18_Witness ==
    \E p \in Builds :
        /\ FailedAt(p, {"git init"})
        /\ Len(effects[p]) = 3
        /\ Succeeded(p, 1) /\ Succeeded(p, 2) /\ ~Succeeded(p, 3)
        /\ printed[p] = None

----------------------------------------------------------------------------
\* The step runs cargo update for p.
StartsRefresh(p) ==
    /\ Len(effects'[p]) = Len(effects[p]) + 1
    /\ effects'[p][Len(effects'[p])].op = "cargo update"

\* <name>/backend is a directory.
BackendIsDir(p) == fs[Self(p).name].kind = "dir" /\ fs[Self(p).name].backend

(* C19: cargo update runs in <project>/backend exactly when that path is a  *)
(* directory at the time of the refresh step, otherwise in the project      *)
(* root, and in no other directory; when it does not exit successfully the  *)
(* build fails.                                                             *)
C19_RefreshDirectory ==
    [][\A p \in Builds :
          StartsRefresh(p) =>
              LET run == effects'[p][Len(effects'[p])]
              IN  /\ run.cwd \in {"project", "project/backend"}
                  /\ (run.cwd = "project/backend") = BackendIsDir(p)
                  /\ IF run.outcome = "success"
                     THEN pc'[p] = "Completed"
                     ELSE /\ pc'[p] = "Failed"
                          /\ err'[p] # None /\ err'[p][1].step = "cargo update"]_vars

\* cargo update has run in the backend directory of a cloned template.
C19_Witness ==
    \E p \in Builds :
        /\ setup[p] # None
        /\ BackendIsDir(p)
        /\ \E i \in Runs(p, "cargo update") : effects[p][i].cwd = "project/backend"

----------------------------------------------------------------------------
PostCloneSteps == {"remove .git", "git init", "cargo update"}

\* What the last successful step before the failing one left of the .git of
\* the destination: the clone leaves the template's, the removal none, git
\* init a fresh one.
GitLeftBefore(step) ==
    CASE step = "remove .git"  -> "template"
      [] step = "git init"     -> "none"
      [] step = "cargo update" -> "fresh"

\* The build failed after its clone had succeeded.
FailedAfterClone(p) ==
    /\ FailedAt(p, PostCloneSteps)
    /\ \E i \in Runs(p, "git clone") : Succeeded(p, i)

(* C20: a build that fails after its clone succeeded, at the .git removal,  *)
(* at git init or at cargo update, cleans nothing up: in the Failed state   *)
(* the destination is the directory exactly as the last successful step of  *)
(* the build left it.                                                       *)
C20_NoRollback ==
    \A p \in Builds :
        FailedAfterClone(p) =>
            LET entry == fs[Self(p).name]
            IN  /\ entry.kind = "dir"
                /\ entry.git = GitLeftBefore(err[p][1].step)
                /\ ~entry.locked

----------------------------------------------------------------------------
(* C21: when build has completed, the position of the progress bar equals   *)
(* the total computed by calculate_total_steps, and so does the number of   *)
(* increments that build has made.                                          *)
C21_IncrementsReachTotal ==
    \A p \in Builds :
        (pc[p] = "Completed") =>
            /\ pb[p][1].pos = calculate_total_steps(Self(p))
            /\ pb[p][1].incs = calculate_total_steps(Self(p))

----------------------------------------------------------------------------
\* build was called on q after the build of p, of the same name, had failed
\* past its clone.
RetryOf(q, p) ==
    /\ SameName(p, q)
    /\ FailedAfterClone(p)
    /\ p \in earlier[q]

(* C22: a build called after a build of the same name has failed past its   *)
(* successful clone runs no command and gets no further than                *)
(* check_directory_conflict, where it fails with the directory error,       *)
(* whatever its components and frontend.                                    *)
C22_RetryFailsAtValidate ==
    \A p, q \in Builds :
        RetryOf(q, p) =>
            /\ effects[q] = <<>>
            /\ pc[q] \in {"check_directory_conflict", "Failed"}
            /\ (pc[q] = "Failed") =>
                  /\ err[q][1].step = "check_directory_conflict"
                  /\ err[q][1].msg = "Directory already exists!"

\* A retry with another selection and a frontend has failed at the check.
C22_Witness ==
    \E p, q \in Builds :
        /\ RetryOf(q, p)
        /\ FailedAt(q, {"check_directory_conflict"})
        /\ args[q].components # args[p].components
        /\ args[q].frontend = Some("react")
        /\ effects[q] = <<>>

----------------------------------------------------------------------------
\* The frontend is neither exactly "react" nor exactly "svelte".
OtherFrontend(p) == args[p].frontend \notin {None, Some("react"), Some("svelte")}

(* C23: with a frontend that is not exactly "react" or "svelte", "React"    *)
(* and "vue" included, determine_template returns what it returns for the   *)
(* same selection with no frontend: a basic template or nothing.            *)
C23_FrontendMatchedExactly ==
    \A p \in Builds :
        (Called(p) /\ OtherFrontend(p)) =>
            /\ Self(p).selected_frontend = args[p].frontend
            /\ Result(p) = Resolve(args[p].components, None)
            /\ Result(p) # None => Result(p)[1] \in BasicTemplates

\* A pair selected with the frontend "React" resolved to its basic template.
C23_Witness ==
    \E p \in Builds :
        /\ Called(p)
        /\ args[p].frontend = Some("React")
        /\ args[p].components = <<wynd, ripress>>
        /\ Result(p) = Some(load_templates["ripress_wynd"])

====
